---- MODULE Spec2Model ----
(***************************************************************************)
(* Model of the test-case generation engine of                             *)
(* ai_test_platform/modules/test_generation.py:                            *)
(*   clean_and_parse_json, normalize_json_structure and                    *)
(*   TestGenerationModule.generate_test_cases_stream.                      *)
(*                                                                         *)
(* Text is a sequence of tokens.  A token is a record with a kind k:       *)
(*   "["  "]"  ","    the JSON punctuation                                 *)
(*   "obj"            a complete JSON object {...} (a test case as the     *)
(*                    model wrote it: raw id idk/idn, description tag d)   *)
(*   "{"              the start of an object that is cut off               *)
(*   "nl"             white space                                          *)
(*   "txt"            prose without brackets or braces                     *)
(*   "Error:"         the prefix "Error:"                                  *)
(*   "Exception"      the prefix "Exception occurred:"                     *)
(*   "quota"          the words between the brackets of "[额度耗尽]"       *)
(*   "fence" "json"   a code fence and the language tag after it           *)
(*   "bom"            a byte-order mark                                    *)
(*   "sqobj"          an object written as a Python literal ('single'      *)
(*                    quotes): no JSON, but ast.literal_eval reads it      *)
(* An object also has f, what it holds besides id and description:         *)
(*   steps, preconditions   a value of a list field: its form ("none":     *)
(*                    absent or null, "list", "str": one string with       *)
(*                    separators, "other": a number) and its parts, the    *)
(*                    elements or segments in order: 0 is a string of      *)
(*                    white space only, n > 0 the string number n, -n the  *)
(*                    string number n with white space around it           *)
(*   priority         the string as written, "none": absent or null        *)
(*   description, test_module, test_input, expected_result                 *)
(*                    "none": absent or null, "empty", "blank": white      *)
(*                    space only, "plain": a string without white space    *)
(*                    around it, "padded": one with white space around it  *)
(*   extra            the object has keys that are no alias of a field     *)
(* A chunk is a text, a stream is a sequence of chunks.                    *)
(***************************************************************************)
EXTENDS Integers, Sequences, FiniteSets, TLC

\* ------------------------------------------------------------------ tokens
ListValue(form, parts) == [form |-> form, parts |-> parts]

\* the fields of {}: nothing
NoFields ==
    [steps |-> ListValue("none", <<>>), preconditions |-> ListValue("none", <<>>),
     priority |-> "none", description |-> "none", test_module |-> "none",
     test_input |-> "none", expected_result |-> "none", extra |-> FALSE]

\* the fields of a test case written the way the prompt asks for
Canon ==
    [steps |-> ListValue("list", <<1>>), preconditions |-> ListValue("list", <<>>),
     priority |-> "P1", description |-> "plain", test_module |-> "plain",
     test_input |-> "plain", expected_result |-> "plain", extra |-> FALSE]

Tok(kind) == [k |-> kind, idk |-> "none", idn |-> 0, d |-> 0, f |-> NoFields]

Obj(idkind, idnum, tag) == [k |-> "obj", idk |-> idkind, idn |-> idnum, d |-> tag, f |-> Canon]

LB == Tok("[")
RB == Tok("]")
COMMA == Tok(",")
NL == Tok("nl")
TXT == Tok("txt")
CUT == Tok("{")

Max2(a, b) == IF a >= b THEN a ELSE b

Min2(a, b) == IF a <= b THEN a ELSE b

SubSeqFrom(s, p) == SubSeq(s, p, Len(s))

RECURSIVE Flatten(_)
Flatten(ss) == IF ss = <<>> THEN <<>> ELSE Head(ss) \o Flatten(Tail(ss))

\* str.find over tokens: the least index >= from whose token kind is in
\* kinds, 0 when there is none (Python's -1)
Find(text, kinds, from) ==
    IF \A j \in from..Len(text) : text[j].k \notin kinds THEN 0
    ELSE CHOOSE j \in from..Len(text) :
             /\ text[j].k \in kinds
             /\ \A h \in from..(j - 1) : text[h].k \notin kinds

\* str.rfind over tokens
RFind(text, kinds) ==
    IF \A j \in 1..Len(text) : text[j].k \notin kinds THEN 0
    ELSE CHOOSE j \in 1..Len(text) :
             /\ text[j].k \in kinds
             /\ \A h \in (j + 1)..Len(text) : text[h].k \notin kinds

\* the first index >= p that is not white space (Len+1 when there is none)
RECURSIVE SkipWs(_, _)
SkipWs(text, p) ==
    IF p > Len(text) THEN p
    ELSE IF text[p].k # "nl" THEN p
    ELSE SkipWs(text, p + 1)

\* the last index <= p that is not white space (0 when there is none)
RECURSIVE SkipWsBack(_, _)
SkipWsBack(text, p) ==
    IF p < 1 THEN 0
    ELSE IF text[p].k # "nl" THEN p
    ELSE SkipWsBack(text, p - 1)

\* str.strip()
Strip(text) == SubSeq(text, SkipWs(text, 1), SkipWsBack(text, Len(text)))

\* the items of s at the indices in keep, in order
Keep(s, keep) ==
    IF keep = 1..Len(s) THEN s
    ELSE [m \in 1..Cardinality(keep) |->
             s[CHOOSE j \in keep : Cardinality({h \in keep : h <= j}) = m]]

\* re.sub(r",\s*([}\]])", r"\1", s): a comma, and the white space after it,
\* is dropped when the next thing is a closing bracket
RemoveTrailingCommas(text) ==
    LET commas == {c \in 1..Len(text) :
                      /\ text[c].k = ","
                      /\ SkipWs(text, c + 1) <= Len(text)
                      /\ text[SkipWs(text, c + 1)].k = "]"}
        dropped == UNION {c..(SkipWs(text, c + 1) - 1) : c \in commas}
    IN  IF commas = {} THEN text ELSE Keep(text, (1..Len(text)) \ dropped)

\* ------------------------------------------------- JSONDecoder.raw_decode
DecodeFail == [ok |-> FALSE, isList |-> FALSE, items |-> <<>>, obj |-> TXT, end |-> 0]

\* a nested array, as an item of the enclosing list
ARR == Tok("arr")

RECURSIVE DecodeElems(_, _, _)
RECURSIVE DecodeValue(_, _)
\* the value that starts at index p
DecodeValue(text, p) ==
    IF p > Len(text) THEN DecodeFail
    ELSE IF text[p].k = "obj"
    THEN [ok |-> TRUE, isList |-> FALSE, items |-> <<>>, obj |-> text[p], end |-> p + 1]
    ELSE IF text[p].k = "["
    THEN LET q == SkipWs(text, p + 1)
         IN  IF q > Len(text) THEN DecodeFail
             ELSE IF text[q].k = "]"
             THEN [ok |-> TRUE, isList |-> TRUE, items |-> <<>>, obj |-> ARR, end |-> q + 1]
             ELSE DecodeElems(text, q, <<>>)
    ELSE DecodeFail

\* the elements of an array, p at the start of the next element
DecodeElems(text, p, acc) ==
    LET v == DecodeValue(text, p)
    IN  IF ~v.ok THEN DecodeFail
        ELSE LET q == SkipWs(text, v.end)
                 acc2 == Append(acc, v.obj)
             IN  IF q > Len(text) THEN DecodeFail
                 ELSE IF text[q].k = "]"
                 THEN [ok |-> TRUE, isList |-> TRUE, items |-> acc2, obj |-> ARR, end |-> q + 1]
                 ELSE IF text[q].k = ","
                 THEN DecodeElems(text, SkipWs(text, q + 1), acc2)
                 ELSE DecodeFail

raw_decode(text) == DecodeValue(text, 1)

\* raw_decode(text[p:]), with end as an index of text
raw_decode_at(text, p) == DecodeValue(text, p)

\* ------------------------------------------------- clean_and_parse_json
HasLBracket == {"["}

HasLBrace == {"obj", "{", "sqobj"}

\* re.findall of the fenced blocks (an opening fence, an optional "json"
\* tag, the body without the white space around it, a closing fence): the
\* bodies from index p on, left to right, without overlap
RECURSIVE code_blocks(_, _)
code_blocks(text, p) ==
    LET open == Find(text, {"fence"}, p)
    IN  IF open = 0 THEN <<>>
        ELSE LET close == Find(text, {"fence"}, open + 1)
             IN  IF close = 0 THEN <<>>
                 ELSE LET afterTag == IF text[open + 1].k = "json" THEN open + 2 ELSE open + 1
                          body == Strip(SubSeq(text, afterTag, close - 1))
                      IN  <<body>> \o code_blocks(text, close + 1)

\* "\n".join(blocks)
RECURSIVE JoinNl(_)
JoinNl(blocks) ==
    IF blocks = <<>> THEN <<>>
    ELSE IF Len(blocks) = 1 THEN blocks[1]
    ELSE blocks[1] \o <<NL>> \o JoinNl(Tail(blocks))

\* the two str.replace calls of line 51: fences and their json tag go
StripFenceMarkers(text) ==
    LET gone(j) == \/ text[j].k = "fence"
                   \/ text[j].k = "json" /\ j > 1 /\ text[j - 1].k = "fence"
    IN  Keep(text, {j \in 1..Len(text) : ~gone(j)})

RemoveBom(text) == SelectSeq(text, LAMBDA t : t.k # "bom")

ParsedList(items) == [t |-> "list", items |-> items, obj |-> TXT, raw |-> <<>>]

ParsedDict(o) == [t |-> "dict", items |-> <<>>, obj |-> o, raw |-> <<>>]

\* the marker holds the text without the white space around it
ParseFailure_stripped(response_text) ==
    [t |-> "fail", items |-> <<>>, obj |-> TXT, raw |-> Strip(response_text)]

\* {"error": "Failed to parse JSON", "raw_response": response_text}
ParseFailure(response_text) == [t |-> "fail", items |-> <<>>, obj |-> TXT, raw |-> response_text]

\* lines 73-91: further arrays after the first one are appended to it
\* (remaining is text from index p on)
RECURSIVE ConcatArrays(_, _, _)
ConcatArrays(text, p, result) ==
    LET nb == Find(text, HasLBracket, p)
        nxt == raw_decode_at(text, nb)
    IN  IF nb = 0 THEN result
        ELSE IF ~nxt.ok THEN result
        ELSE ConcatArrays(text, nxt.end,
                          IF nxt.isList THEN result \o nxt.items ELSE result)

\* lines 106-117 and 126-137: decode the objects one by one, left to right,
\* stopping at the first that does not decode.  The cursor goes from brace
\* to brace; a complete object decodes and the cursor moves past it, so the
\* loop collects the complete objects before the first brace that opens
\* something else.
ScanObjects(text) ==
    LET bad == Find(text, HasLBrace \ {"obj"}, 1)
        upto == IF bad = 0 THEN Len(text) ELSE bad - 1
    IN  SelectSeq(SubSeq(text, 1, upto), LAMBDA t : t.k = "obj")

\* ast.literal_eval(s): the whole text must be one Python literal; a list may
\* end in a comma, objects may be single-quoted
RECURSIVE LitElems(_, _, _)
RECURSIVE LitValue(_, _)
LitValue(text, p) ==
    IF p > Len(text) THEN DecodeFail
    ELSE IF text[p].k \in {"obj", "sqobj"}
    THEN [ok |-> TRUE, isList |-> FALSE, items |-> <<>>, obj |-> text[p], end |-> p + 1]
    ELSE IF text[p].k = "["
    THEN LitElems(text, SkipWs(text, p + 1), <<>>)
    ELSE DecodeFail

LitElems(text, p, acc) ==
    IF p > Len(text) THEN DecodeFail
    ELSE IF text[p].k = "]"
    THEN [ok |-> TRUE, isList |-> TRUE, items |-> acc, obj |-> ARR, end |-> p + 1]
    ELSE LET v == LitValue(text, p)
         IN  IF ~v.ok THEN DecodeFail
             ELSE LET q == SkipWs(text, v.end)
                      acc2 == Append(acc, v.obj)
                  IN  IF q > Len(text) THEN DecodeFail
                      ELSE IF text[q].k = "]"
                      THEN [ok |-> TRUE, isList |-> TRUE, items |-> acc2, obj |-> ARR, end |-> q + 1]
                      ELSE IF text[q].k = ","
                      THEN LitElems(text, SkipWs(text, q + 1), acc2)
                      ELSE DecodeFail

literal_eval(text) ==
    LET v == LitValue(text, 1)
    IN  IF v.ok /\ SkipWs(text, v.end) > Len(text) THEN v ELSE DecodeFail

\* lines 150-162: the fallback of the outer except
Fallback(cleaned_response, response_text) ==
    IF /\ Strip(cleaned_response) # <<>>
       /\ Strip(cleaned_response)[1].k \in (HasLBracket \cup HasLBrace)
       /\ literal_eval(cleaned_response).ok
    THEN IF literal_eval(cleaned_response).isList
         THEN ParsedList(literal_eval(cleaned_response).items)
         ELSE ParsedDict(literal_eval(cleaned_response).obj)
    ELSE ParseFailure(response_text)

\* lines 45-51: the fenced blocks joined, or the text without fence markers
extract_fenced(blocks, response_text) ==
    IF blocks # <<>> THEN JoinNl(blocks) ELSE StripFenceMarkers(response_text)

\* lines 119-122 and 138-141: the objects that were found, or the exception
\* goes on to the fallback
scan_result(items, cleaned_response, response_text) ==
    IF items # <<>> THEN ParsedList(items) ELSE Fallback(cleaned_response, response_text)

\* lines 100-122: the candidate that ends at the last "]" decodes, or the
\* objects are decoded one by one
repair_candidate(parsed, cleaned_response, response_text) ==
    IF parsed.ok
    THEN IF parsed.isList THEN ParsedList(parsed.items) ELSE ParsedDict(parsed.obj)
    ELSE scan_result(ScanObjects(cleaned_response), cleaned_response, response_text)

\* lines 93-141: the array did not decode
repair_array(last_bracket, cleaned_response, response_text) ==
    IF last_bracket # 0
    THEN repair_candidate(
             raw_decode(RemoveTrailingCommas(SubSeq(cleaned_response, 1, last_bracket))),
             cleaned_response, response_text)
    ELSE scan_result(ScanObjects(cleaned_response), cleaned_response, response_text)

\* lines 66-141, root_is_array
parse_array(parsed, cleaned_response, response_text) ==
    IF parsed.ok
    THEN IF parsed.isList
         THEN ParsedList(ConcatArrays(cleaned_response, parsed.end, parsed.items))
         ELSE ParsedDict(parsed.obj)
    ELSE repair_array(RFind(cleaned_response, {"]"}), cleaned_response, response_text)

\* lines 146-149: the candidate that ends at the last "}"
repair_object_candidate(parsed, cleaned_response, response_text) ==
    IF parsed.ok THEN ParsedDict(parsed.obj)
    ELSE Fallback(cleaned_response, response_text)

\* lines 142-149: the object did not decode
repair_object(last_brace, cleaned_response, response_text) ==
    IF last_brace # 0
    THEN repair_object_candidate(
             raw_decode(RemoveTrailingCommas(SubSeq(cleaned_response, 1, last_brace))),
             cleaned_response, response_text)
    ELSE Fallback(cleaned_response, response_text)

\* lines 66-69 and 142-149, the root is an object
parse_object(parsed, cleaned_response, response_text) ==
    IF parsed.ok THEN ParsedDict(parsed.obj)
    ELSE repair_object(RFind(cleaned_response, {"obj"}), cleaned_response, response_text)

\* lines 62-149: cleaned_response from start_idx on, trailing commas removed
parse_root(root_is_array, cleaned_response, response_text) ==
    IF root_is_array
    THEN parse_array(raw_decode(cleaned_response), cleaned_response, response_text)
    ELSE parse_object(raw_decode(cleaned_response), cleaned_response, response_text)

\* lines 55-64
parse_from(first_array, first_obj, cleaned_response, response_text) ==
    IF first_array = 0 /\ first_obj = 0
    THEN Fallback(cleaned_response, response_text)
    ELSE IF first_array # 0 /\ (first_obj = 0 \/ first_array < first_obj)
    THEN parse_root(TRUE,
                    RemoveTrailingCommas(SubSeqFrom(cleaned_response, first_array)),
                    response_text)
    ELSE parse_root(FALSE,
                    RemoveTrailingCommas(SubSeqFrom(cleaned_response, first_obj)),
                    response_text)

\* lines 53-56
parse_cleaned(cleaned_response, response_text) ==
    parse_from(Find(cleaned_response, HasLBracket, 1),
               Find(cleaned_response, HasLBrace, 1),
               cleaned_response, response_text)

clean_and_parse_json(response_text) ==
    parse_cleaned(
        Strip(RemoveBom(extract_fenced(code_blocks(response_text, 1), response_text))),
        response_text)

\* ---------------------------------------------- normalize_json_structure
\* A canonical record is an "obj" token whose id is well formed ("TC-" and
\* the number idn, at least three digits).  final_id of lines 213-220: a
\* well-formed or a numeric id is kept, anything else becomes the position
\* of the item in the list (counting the items that are dropped, too).
\* the position, whatever the id
final_id_position(item, i) == i

final_id(item, i) == IF item.idk \in {"tc", "num"} THEN item.idn ELSE i

IsDict(item) == item.k \in {"obj", "sqobj"}

Abs(n) == IF n < 0 THEN -n ELSE n

\* lines 185-211: every element or segment stripped, the empty ones dropped
normalize_list(v) ==
    ListValue("list", SelectSeq([j \in 1..Len(v.parts) |-> Abs(v.parts[j])],
                                LAMBDA x : x # 0))

\* str(pick(keys, "") or "").strip()
text_of(raw) == IF raw \in {"plain", "padded"} THEN "plain" ELSE "empty"

\* str.strip() and str.upper() of a priority as written
StripUpper(raw) ==
    CASE raw \in {"p0", " P0 "} -> "P0"
      [] raw \in {"p1"} -> "P1"
      [] raw \in {"p2", " p2 "} -> "P2"
      [] raw \in {"high", "High"} -> "HIGH"
      [] raw \in {"medium"} -> "MEDIUM"
      [] raw \in {"low"} -> "LOW"
      [] raw \in {"urgent"} -> "URGENT"
      [] OTHER -> raw

\* lines 228-239; "gao", "zhong" and "di" stand for the Chinese words for
\* high, medium and low
priority_of(raw) ==
    LET p == StripUpper(IF raw \in {"none", ""} THEN "P1" ELSE raw)
    IN  IF p \in {"P0", "P1", "P2"} THEN p
        ELSE IF p \in {"gao", "HIGH"} THEN "P0"
        ELSE IF p \in {"zhong", "MEDIUM"} THEN "P1"
        ELSE IF p \in {"di", "LOW"} THEN "P2"
        ELSE "P1"

\* lines 222-250
normalize_fields(f) ==
    [steps |-> normalize_list(f.steps),
     preconditions |-> normalize_list(f.preconditions),
     priority |-> priority_of(f.priority),
     description |-> text_of(f.description),
     test_module |-> text_of(f.test_module),
     test_input |-> text_of(f.test_input),
     expected_result |-> text_of(f.expected_result),
     extra |-> FALSE]

\* lines 213-250: the record made of item number i (from 1)
normalize_item(item, i) ==
    [k |-> "obj", idk |-> "tc", idn |-> final_id(item, i), d |-> item.d,
     f |-> normalize_fields(item.f)]

normalize_items(data) ==
    Keep([j \in 1..Len(data) |-> normalize_item(data[j], j)],
         {j \in 1..Len(data) : IsDict(data[j])})

normalize_json_structure(data) ==
    IF data.t # "list" THEN data ELSE ParsedList(normalize_items(data.items))

IsList(v) == v.t = "list"

\* len() of a decoded payload: the items of a list, the keys of the failure
\* marker {"error", "raw_response"}
PyLen(v) == IF v.t = "list" THEN Len(v.items) ELSE 2

\* ------------------------------------------------------------ the bounds
\* targets 1..MaxTarget and BatchCap+1..BatchCap+MaxExtra are requested
MaxTarget == 2
MaxExtra == 1
\* the persisted list holds 0..MaxExisting records when the run starts
MaxExisting == 2
\* how often, in a run, the generator may turn to a new way of not
\* answering with the array that was asked for
MaxFaults == 1

\* planning is looked at for targets 1..MaxPlanTarget and lists of
\* 0..MaxPlanExisting records
MaxPlanTarget == 51
MaxPlanExisting == 10

\* overwriting is looked at for tables of 0..MaxRecords records of the user
MaxRecords == 2

\* the parser is called with every text of 0..MaxLen tokens, and with
\* arrays of 0..MaxItems objects written in the ways of WrittenShapes
MaxLen == 4
MaxItems == 2

\* the normalizer is called with every list of 0..MaxNormItems raw items
MaxNormItems == 2

\* the history of a run is looked at for targets 1..MaxHistTarget
MaxHistTarget == 76

\* the knowledge base is looked at until MaxDocIds documents were created
MaxDocIds == 2

\* line 669/675: the batch size of a run
BatchCap == 25
\* line 711: tries of a batch; line 818: supplement calls
MaxAttempts == 3
\* line 719: entries of the history that go into a prompt
HistoryWindow == 50

Targets == (1..MaxTarget) \cup ((BatchCap + 1)..(BatchCap + MaxExtra))

\* math.ceil(a / b), b > 0
CeilDiv(a, b) == -((-a) \div b)

\* --------------------------------------------------- the generator's side
\* what client.generate_response_stream may yield for a call that asks for
\* need cases with ids from `from`; tags of new objects start after `tag`
Shapes == {"full", "short", "over", "empty", "text", "trunc", "bare",
           "err", "miderr", "quota"}

IdModes == {"asked", "restart", "none"}

NewObj(mode, from, j, tag) ==
    IF mode = "asked" THEN Obj("tc", from + j - 1, tag + j)
    ELSE IF mode = "restart" THEN Obj("tc", j, tag + j)
    ELSE Obj("none", 0, tag + j)

\* o1 , o2 , ... , on
RECURSIVE Elems(_, _, _, _)
Elems(mode, from, n, tag) ==
    IF n = 0 THEN <<>>
    ELSE IF n = 1 THEN <<NewObj(mode, from, 1, tag)>>
    ELSE Elems(mode, from, n - 1, tag) \o <<COMMA, NewObj(mode, from, n, tag)>>

ErrorChunk == <<Tok("Error:"), TXT>>

QuotaChunk == <<LB, Tok("quota"), RB, TXT>>

ShapeCount(shape, need) ==
    CASE shape = "full" -> need
      [] shape = "short" -> need - 1
      [] shape = "over" -> need + 1
      [] shape = "trunc" -> need - 1
      [] shape \in {"bare", "miderr"} -> 1
      [] OTHER -> 0

Stream(shape, mode, from, need, tag) ==
    LET n == ShapeCount(shape, need)
        es == Elems(mode, from, n, tag)
    IN  CASE shape \in {"full", "short", "over"} -> << <<LB>> \o es \o <<RB>> >>
          [] shape = "empty" -> << <<NL>> >>
          [] shape = "text" -> << <<TXT>> >>
          [] shape = "trunc" -> << <<LB>> \o es \o (IF n > 0 THEN <<COMMA>> ELSE <<>>) \o <<CUT>> >>
          [] shape = "bare" -> << es >>
          [] shape = "err" -> << ErrorChunk >>
          [] shape = "miderr" -> << <<LB>> \o es \o <<COMMA>>, ErrorChunk >>
          [] shape = "quota" -> << QuotaChunk >>

\* lines 755 and 839: chunk.startswith("Error:") or
\* chunk.startswith("[额度耗尽]") or chunk.startswith("Exception occurred:")
IsProviderError(chunk) ==
    /\ chunk # <<>>
    /\ \/ chunk[1].k = "Error:"
       \/ chunk[1].k = "Exception"
       \/ Len(chunk) >= 3 /\ chunk[1].k = "[" /\ chunk[2].k = "quota" /\ chunk[3].k = "]"

\* the chunks the for loop of lines 750-757 (835-841) consumes: all of them
\* up to and including the first provider-error chunk
Consumed(stream) ==
    LET bad == {j \in 1..Len(stream) : IsProviderError(stream[j])}
    IN  IF bad = {} THEN stream
        ELSE SubSeq(stream, 1, CHOOSE j \in bad : \A h \in bad : j <= h)

ProviderErrorOf(stream) ==
    LET c == Consumed(stream)
    IN  IF c # <<>> /\ IsProviderError(c[Len(c)]) THEN c[Len(c)] ELSE <<>>

\* ------------------------------------------ generate_test_cases_stream
VARIABLES
    pc,                 \* where the generator function is suspended
    append, overwrite,  \* the request's flags
    expected_count,     \* the target (raised by auto-continuation)
    requested,          \* the target as the caller passed it
    idmode,             \* how the model numbers the cases it writes
    db,                 \* the generation records the queries of lines 485-491
                        \* and 893-899 match (this project and requirement
                        \* text and, a user id given, this user), oldest
                        \* first: their payloads
    others,             \* the records of this project and requirement text
                        \* that belong to no user or to another one
    response_text,      \* the text of a call of clean_and_parse_json alone
    written,            \* the way that text was written, and
    intended,           \* the items its author put into it
    result,             \* what the call returned
    normalized,         \* what normalize_json_structure made of result
    web,                \* the request at the endpoint generate_tests_stream:
                        \* how the requirement came (via), whether the
                        \* knowledge base holds a document of this content
                        \* (kb) and held one when the request came (held),
                        \* how far the endpoint is (stage), the table
                        \* as the request found it, and the lines the
                        \* endpoint itself has streamed
    existing_entry,     \* index into db of the record found at the start, 0: None
    existing_cases,     \* its decoded payload
    start_id, batch_size, total_batches,
    i,                  \* index of the running batch, from 0
    current_id, current_batch_count, generated_in_batch, attempt,
    batch_content, full_content,
    history_summaries,
    parsed_result, current_total, missing, supplement_attempt,
    out,                \* what the function has yielded so far
    calls,              \* the generation calls issued so far
    quotas,             \* current_batch_count of the batches started so far
    batch_parsed,       \* per batch started, the cases its last parse counted
    ntags,              \* objects the model has written so far
    budget,             \* how often the generator may turn to a new way of
                        \* not answering with the array that was asked for
    faults,             \* so far, the calls whose stream was not the array that
                        \* was asked for and not the same again as the call before
    store,              \* the table knowledge_documents and the last call of
                        \* the knowledge base module
    prep,               \* the context preparation of the run (lines 502-585)
    rival               \* another run of the generator on the same project
                        \* and requirement text, by the same user

vars == <<pc, append, overwrite, expected_count, requested, idmode, db,
          existing_entry, existing_cases, start_id, batch_size, total_batches,
          i, current_id, current_batch_count, generated_in_batch, attempt,
          batch_content, full_content, history_summaries, parsed_result,
          current_total, missing, supplement_attempt, out, calls, quotas,
          batch_parsed, ntags, budget, faults, others,
          response_text, written, intended, result, normalized, web,
          store, prep, rival>>

\* the variables of a call of the parser or the normalizer alone
call_vars == <<response_text, written, intended, result, normalized>>

\* the variables outside the run of the generator and its endpoint
side_vars == <<store, prep, rival>>

Web(via, kb, stage, table, lines) ==
    [via |-> via, kb |-> kb, held |-> kb, stage |-> stage, table |-> table, lines |-> lines]

\* the generator is called without the endpoint
NoWeb == web = Web("none", FALSE, "none", <<>>, <<>>)

\* an empty knowledge base that was never called
NoStore == [docs |-> <<>>, next_id |-> 1, now |-> 0, op |-> [name |-> "none"], ret |-> [t |-> "none"]]

\* a run that was not asked to prepare its context
NoPrep == [stage |-> "none"]

\* no other run
NoRival == [pc |-> "none"]

NoSide ==
    /\ store = NoStore
    /\ prep = NoPrep
    /\ rival = NoRival

\* the records of a list persisted by an earlier run: canonical, ids 1..n
ExistingRecords(n) == [j \in 1..n |-> Obj("tc", j, -j)]

InitialDbs ==
    {<<>>, <<ParseFailure(<<TXT>>)>>}
    \cup {<<ParsedList(ExistingRecords(n))>> : n \in 0..MaxExisting}

\* what is yielded: status lines, raw chunks, the "\n" after a try, and the
\* lines the function itself writes ("Error: ...", the provider's text)
Yield(kind, text) == [k |-> kind, text |-> text]

Status == Yield("status", <<>>)

FailStatus == Yield("status", <<Tok("failed")>>)

\* line 878: the status line that tells of the truncation
CutStatus == Yield("status", <<Tok("cut")>>)

\* line 1036
MetricsLine == Yield("line", <<Tok("GEN_QM")>>)

NoContentError == Yield("line", <<Tok("Error:"), Tok("nocontent")>>)

ParseError == Yield("line", <<Tok("Error:"), Tok("parse")>>)

EmptyResultError == Yield("line", <<Tok("Error:"), Tok("emptyresult")>>)

history_entry(case) == [id |-> case.idn, d |-> case.d]

history_of(cases) == [j \in 1..Len(cases) |-> history_entry(cases[j])]

\* the prompt is given the whole list
recent_history_all(h) == h

\* history_summaries[-50:]
recent_history(h) == SubSeq(h, Max2(1, Len(h) - HistoryWindow + 1), Len(h))

\* a request arrives: target T, the two flags, the table as it is, and what
\* the generator will be allowed to do
Request(T, app, ow, table, mode, b) ==
    /\ pc = "start"
    /\ append = app
    /\ overwrite = ow
    /\ expected_count = T
    /\ requested = T
    /\ idmode = mode
    /\ db = table
    /\ existing_entry = 0
    /\ existing_cases = ParsedList(<<>>)
    /\ start_id = 1
    /\ batch_size = 10
    /\ total_batches = 0
    /\ i = 0
    /\ current_id = 1
    /\ current_batch_count = 0
    /\ generated_in_batch = 0
    /\ attempt = 0
    /\ batch_content = <<>>
    /\ full_content = <<>>
    /\ history_summaries = <<>>
    /\ parsed_result = ParsedList(<<>>)
    /\ current_total = 0
    /\ missing = 0
    /\ supplement_attempt = 0
    /\ out = <<>>
    /\ calls = <<>>
    /\ quotas = <<>>
    /\ batch_parsed = <<>>
    /\ ntags = 0
    /\ budget = b
    /\ faults = 0

\* no call of the parser or the normalizer alone
NoCall ==
    /\ response_text = <<>>
    /\ written = "none"
    /\ intended = <<>>
    /\ result = ParsedList(<<>>)
    /\ normalized = ParsedList(<<>>)

Init ==
    \E T \in Targets, app \in BOOLEAN, ow \in BOOLEAN, table \in InitialDbs :
        /\ Request(T, app, ow, table, "asked", MaxFaults)
        /\ others = <<>>
        /\ NoCall
        /\ NoWeb
        /\ NoSide

\* lines 664-678: the batch size of the plan
plan_batch_size(app, expected, existing) ==
    LET current_existing_count == IF IsList(existing) THEN Len(existing.items) ELSE 0
        needed_to_append == expected - current_existing_count
    IN  IF app
        THEN IF needed_to_append > BatchCap THEN BatchCap ELSE Max2(1, needed_to_append)
        ELSE BatchCap

\* auto-continuation by a whole batch of BatchCap
plan_expected_cap(app, expected, existing, bs) ==
    IF app /\ expected <= PyLen(existing) THEN PyLen(existing) + BatchCap ELSE expected

\* lines 681-684: auto-continuation
plan_expected(app, expected, existing, bs) ==
    IF app /\ expected <= PyLen(existing) THEN PyLen(existing) + bs ELSE expected

\* lines 686-689
plan_total_batches(expected, sid, bs) ==
    LET tb == CeilDiv(expected - (sid - 1), bs)
    IN  IF tb < 1 /\ expected > sid - 1 THEN 1 ELSE tb

\* every batch asks for a whole batch size
batch_count_whole(expected, cid, sid, bs) == bs

\* lines 701-702
batch_count(expected, cid, sid, bs) == Min2(bs, expected - (cid - sid))

\* lines 471-500 and 660-705: look the record up, plan, enter the first batch
Start ==
    /\ pc = "start"
    /\ LET entry == IF append THEN Len(db) ELSE 0
           cases == IF entry # 0 THEN db[entry] ELSE ParsedList(<<>>)
           sid == IF entry # 0 /\ IsList(cases) THEN Len(cases.items) + 1 ELSE 1
           bs == plan_batch_size(append, expected_count, cases)
           expected == plan_expected(append, expected_count, cases, bs)
           tb == plan_total_batches(expected, sid, bs)
           cbc == batch_count(expected, sid, sid, bs)
       IN  /\ existing_entry' = entry
           /\ existing_cases' = cases
           /\ start_id' = sid
           /\ batch_size' = bs
           /\ expected_count' = expected
           /\ total_batches' = tb
           /\ current_id' = sid
           /\ history_summaries' = IF append /\ IsList(cases) THEN history_of(cases.items) ELSE <<>>
           /\ out' = IF expected # expected_count THEN <<Status>> ELSE <<>>
           /\ IF tb >= 1 /\ cbc > 0
              THEN /\ pc' = "batch"
                   /\ current_batch_count' = cbc
                   /\ quotas' = <<cbc>>
                   /\ batch_parsed' = << <<>> >>
              ELSE /\ pc' = "post"
                   /\ current_batch_count' = IF tb >= 1 THEN cbc ELSE current_batch_count
                   /\ quotas' = <<>>
                   /\ batch_parsed' = <<>>
    /\ UNCHANGED <<append, overwrite, requested, idmode, db, i, generated_in_batch,
                   attempt, batch_content, full_content, parsed_result, current_total,
                   missing, supplement_attempt, calls, ntags, budget, faults, others, call_vars, web, side_vars>>

\* the streams the generator may answer the next call with
LastShape == IF calls = <<>> THEN "full" ELSE calls[Len(calls)].shape

Allowed(shape) == shape \in {"full", LastShape} \/ faults < budget

Spent(shape) == IF shape \in {"full", LastShape} THEN faults ELSE faults + 1

ChunkYields(chunks) == [j \in 1..Len(chunks) |-> Yield("chunk", chunks[j])]

ProviderLine(chunk) == Yield("line", chunk)

Call(phase, shape, need, from) ==
    [ph |-> phase, b |-> i + 1, a |-> IF phase = "batch" THEN attempt + 1 ELSE supplement_attempt + 1,
     need |-> need, from |-> from, shape |-> shape,
     hist |-> IF phase = "batch" THEN Len(recent_history(history_summaries)) ELSE 0,
     hlen |-> Len(history_summaries),
     history |-> history_summaries,
     window |-> IF phase = "batch" THEN recent_history(history_summaries) ELSE <<>>]

\* an empty try is never tried again
retry_empty_never(att) == FALSE

\* line 760: an empty try is tried again while tries are left
retry_empty(att) == att < MaxAttempts

\* a batch is given a fourth try
retry_batch_again(gen, att) == gen < current_batch_count /\ att < MaxAttempts + 1

\* line 711: the while loop goes on
retry_batch(gen, att) == gen < current_batch_count /\ att < MaxAttempts

\* the for loop of line 700 moves on: line 790, then lines 700-709 of the
\* next batch, or the loop ends
LeaveBatch(gen, att, bc, seen) ==
    LET cid == current_id + current_batch_count
        cbc == batch_count(expected_count, cid, start_id, batch_size)
    IN  /\ current_id' = cid
        /\ i' = i + 1
        /\ IF i + 1 < total_batches /\ cbc > 0
           THEN /\ pc' = "batch"
                /\ current_batch_count' = cbc
                /\ quotas' = Append(quotas, cbc)
                /\ batch_parsed' = Append(seen, <<>>)
                /\ generated_in_batch' = 0
                /\ attempt' = 0
                /\ batch_content' = <<>>
           ELSE /\ pc' = "post"
                /\ current_batch_count' = IF i + 1 < total_batches THEN cbc ELSE current_batch_count
                /\ quotas' = quotas
                /\ batch_parsed' = seen
                /\ generated_in_batch' = gen
                /\ attempt' = att
                /\ batch_content' = bc

\* lines 711-790: one try of the running batch, from the status line of
\* line 714 to the "\n" of line 776 (or to the error line of 764 / 770)
BatchTry(shape) ==
    /\ pc = "batch"
    /\ Allowed(shape)
    /\ LET need == current_batch_count - generated_in_batch
           from == current_id + generated_in_batch
           stream == Stream(shape, idmode, from, need, ntags)
           chunks == Consumed(stream)
           provider_error == ProviderErrorOf(stream)
           chunk_acc == Flatten(chunks)
           yielded == out \o <<Status>> \o ChunkYields(chunks)
           bc == batch_content \o chunk_acc \o <<NL>>
       IN  /\ calls' = Append(calls, Call("batch", shape, need, from))
           /\ ntags' = ntags + ShapeCount(shape, need)
           /\ faults' = Spent(shape)
           /\ IF provider_error = <<>> /\ Strip(chunk_acc) = <<>>
              THEN \* lines 759-766: no content
                   /\ full_content' = full_content \o chunk_acc
                   /\ history_summaries' = history_summaries
                   /\ IF retry_empty(attempt + 1)
                      THEN /\ out' = yielded \o <<Status>>
                           /\ attempt' = attempt + 1
                           /\ batch_content' = batch_content \o chunk_acc
                           /\ UNCHANGED <<pc, i, current_id, current_batch_count,
                                          generated_in_batch, quotas, batch_parsed>>
                      ELSE /\ out' = yielded \o <<FailStatus, NoContentError>>
                           /\ LeaveBatch(generated_in_batch, MaxAttempts,
                                         batch_content \o chunk_acc, batch_parsed)
              ELSE IF provider_error # <<>>
              THEN \* lines 768-772: a provider error
                   /\ full_content' = full_content \o chunk_acc
                   /\ history_summaries' = history_summaries
                   /\ out' = yielded \o <<FailStatus, ProviderLine(provider_error)>>
                   /\ LeaveBatch(generated_in_batch, MaxAttempts,
                                 batch_content \o chunk_acc, batch_parsed)
              ELSE \* lines 774-788: parse what the batch has so far
                   /\ full_content' = full_content \o chunk_acc \o <<NL>>
                   /\ out' = yielded \o <<Yield("nl", <<>>)>>
                   /\ \E parsed_batch \in {normalize_json_structure(clean_and_parse_json(bc))} :
                        /\ history_summaries' =
                              IF IsList(parsed_batch)
                              THEN history_summaries \o history_of(parsed_batch.items)
                              ELSE history_summaries
                        /\ LET gen == IF IsList(parsed_batch) THEN Len(parsed_batch.items)
                                      ELSE generated_in_batch
                               seen == IF IsList(parsed_batch)
                                       THEN [batch_parsed EXCEPT ![i + 1] = parsed_batch.items]
                                       ELSE batch_parsed
                           IN  IF retry_batch(gen, attempt + 1)
                               THEN /\ generated_in_batch' = gen
                                    /\ attempt' = attempt + 1
                                    /\ batch_content' = bc
                                    /\ batch_parsed' = seen
                                    /\ UNCHANGED <<pc, i, current_id, current_batch_count, quotas>>
                               ELSE LeaveBatch(gen, attempt + 1, bc, seen)
    /\ UNCHANGED <<append, overwrite, expected_count, requested, idmode, db,
                   existing_entry, existing_cases, start_id, batch_size,
                   total_batches, parsed_result, current_total, missing,
                   supplement_attempt, budget, others, call_vars, web, side_vars>>

\* new records plus, in append mode, the records of the existing list
total_of(parsed) ==
    Len(parsed.items)
    + (IF append /\ IsList(existing_cases) THEN Len(existing_cases.items) ELSE 0)

\* lines 793-817: parse everything the batches streamed; decide on supplements
PostProcess ==
    /\ pc = "post"
    /\ \E parsed \in {normalize_json_structure(clean_and_parse_json(full_content))} :
           /\ parsed_result' = parsed
           /\ current_total' = total_of(parsed)
           /\ IF IsList(parsed) /\ total_of(parsed) < expected_count
              THEN /\ missing' = expected_count - total_of(parsed)
                   /\ pc' = "supp"
              ELSE /\ missing' = missing
                   /\ pc' = "final"
    /\ supplement_attempt' = 0
    /\ UNCHANGED <<append, overwrite, expected_count, requested, idmode, db,
                   existing_entry, existing_cases, start_id, batch_size,
                   total_batches, i, current_id, current_batch_count,
                   generated_in_batch, attempt, batch_content, full_content,
                   history_summaries, out, calls, quotas, batch_parsed, ntags,
                   budget, faults, others, call_vars, web, side_vars>>

\* lines 818-860: one supplement call
SupplementTry(shape) ==
    /\ pc = "supp"
    /\ Allowed(shape)
    /\ LET from == current_total + 1
           stream == Stream(shape, idmode, from, missing, ntags)
           chunks == Consumed(stream)
           provider_error == ProviderErrorOf(stream)
           extra_content == Flatten(chunks)
           yielded == out \o <<Status>> \o ChunkYields(chunks)
       IN  /\ calls' = Append(calls, Call("supp", shape, missing, from))
           /\ ntags' = ntags + ShapeCount(shape, missing)
           /\ faults' = Spent(shape)
           /\ supplement_attempt' = supplement_attempt + 1
           /\ IF provider_error # <<>>
              THEN \* lines 842-845
                   /\ full_content' = full_content \o extra_content
                   /\ out' = yielded \o <<FailStatus, ProviderLine(provider_error)>>
                   /\ pc' = "final"
                   /\ UNCHANGED <<parsed_result, current_total, missing>>
              ELSE \* lines 846-860
                   /\ full_content' = full_content \o extra_content \o <<NL>>
                   /\ out' = yielded \o <<Yield("nl", <<>>)>>
                   /\ \E extra_parsed \in {normalize_json_structure(clean_and_parse_json(extra_content))} :
                        LET extended == normalize_json_structure(
                                            ParsedList(parsed_result.items \o extra_parsed.items))
                            grows == IsList(extra_parsed) /\ extra_parsed.items # <<>>
                            total == IF grows THEN total_of(extended) ELSE current_total
                        IN  /\ parsed_result' = IF grows THEN extended ELSE parsed_result
                            /\ current_total' = total
                            /\ missing' = expected_count - total
                            /\ pc' = IF expected_count - total > 0
                                        /\ supplement_attempt + 1 < MaxAttempts
                                     THEN "supp" ELSE "final"
    /\ UNCHANGED <<append, overwrite, expected_count, requested, idmode, db,
                   existing_entry, existing_cases, start_id, batch_size,
                   total_batches, i, current_id, current_batch_count,
                   generated_in_batch, attempt, batch_content,
                   history_summaries, quotas, batch_parsed, budget, others, call_vars, web, side_vars>>

\* the existing records are not counted
target_new_count_total(expected) == Max2(0, expected)

\* lines 870-874: how many new records may stay
target_new_count(expected) ==
    Max2(0, IF append /\ IsList(existing_cases)
            THEN expected - Len(existing_cases.items) ELSE expected)

\* nothing is cut
truncate_nothing(parsed) == parsed

\* lines 862-878: cut the new records down to the target
truncate(parsed) ==
    IF IsList(parsed) /\ current_total > expected_count
       /\ Len(parsed.items) > target_new_count(expected_count)
    THEN ParsedList(SubSeq(parsed.items, 1, target_new_count(expected_count)))
    ELSE parsed

\* the overwrite branch replaces the oldest record
persist_oldest(final) ==
    IF overwrite
    THEN IF db # <<>> THEN [db EXCEPT ![1] = final] ELSE <<final>>
    ELSE IF append /\ existing_entry # 0
    THEN IF IsList(final) /\ IsList(existing_cases)
         THEN [db EXCEPT ![existing_entry] = ParsedList(existing_cases.items \o final.items)]
         ELSE db
    ELSE Append(db, final)

\* the append branch writes the new records only
persist_new_only(final) ==
    IF overwrite
    THEN IF db # <<>> THEN [db EXCEPT ![Len(db)] = final] ELSE <<final>>
    ELSE IF append /\ existing_entry # 0
    THEN IF IsList(final) /\ IsList(existing_cases)
         THEN [db EXCEPT ![existing_entry] = final]
         ELSE db
    ELSE Append(db, final)

\* the append branch is tried before the overwrite branch
persist_merged(final) ==
    IF append /\ existing_entry # 0
    THEN IF IsList(final) /\ IsList(existing_cases)
         THEN [db EXCEPT ![existing_entry] = ParsedList(existing_cases.items \o final.items)]
         ELSE db
    ELSE IF overwrite
    THEN IF db # <<>> THEN [db EXCEPT ![Len(db)] = final] ELSE <<final>>
    ELSE Append(db, final)

\* lines 890-929: what the run leaves in the table.  In the append branch
\* existing_cases + parsed_result raises a TypeError when the existing
\* payload is no list; the except of line 1042 swallows it, nothing is
\* written.
persist(final) ==
    IF overwrite
    THEN IF db # <<>> THEN [db EXCEPT ![Len(db)] = final] ELSE <<final>>
    ELSE IF append /\ existing_entry # 0
    THEN IF IsList(final) /\ IsList(existing_cases)
         THEN [db EXCEPT ![existing_entry] = ParsedList(existing_cases.items \o final.items)]
         ELSE db
    ELSE Append(db, final)

\* lines 931-1040: building the GEN_QM object reads metrics_data (line 1026),
\* a name that is bound nowhere: the NameError is caught at line 1039 and
\* the GEN_QM line of line 1036 is not yielded
metrics_yield == <<>>

\* lines 862-1043: truncate, report an empty or unparsed result, persist
Finish ==
    /\ pc = "final"
    /\ LET final == truncate(parsed_result)
           cut == final # parsed_result
           errors == IF final.t = "fail" THEN <<FailStatus, ParseError>>
                     ELSE IF IsList(final) /\ final.items = <<>>
                     THEN <<FailStatus, EmptyResultError>>
                     ELSE <<>>
       IN  /\ parsed_result' = final
           /\ out' = out \o (IF cut THEN <<CutStatus>> ELSE <<>>) \o errors \o metrics_yield
           /\ db' = persist(final)
    /\ pc' = "done"
    /\ UNCHANGED <<append, overwrite, expected_count, requested, idmode,
                   existing_entry, existing_cases, start_id, batch_size,
                   total_batches, i, current_id, current_batch_count,
                   generated_in_batch, attempt, batch_content, full_content,
                   history_summaries, current_total, missing,
                   supplement_attempt, calls, quotas, batch_parsed, ntags,
                   budget, faults, others, call_vars, web, side_vars>>

Next ==
    \/ Start
    \/ \E shape \in Shapes : BatchTry(shape)
    \/ PostProcess
    \/ \E shape \in Shapes : SupplementTry(shape)
    \/ Finish

Spec == Init /\ [][Next]_vars

\* the run is in its batches, between them and the supplements, or in its
\* supplements: a try or the parse of line 795 is the step it can take
Running == pc \in {"batch", "post", "supp"}

\* The caller reads the stream to its end, and every stream of the generator
\* ends: a run that can take a step takes one.  For the steps that parse
\* (BatchTry, PostProcess, SupplementTry) weak fairness is written with
\* Running, the condition under which one of them can be taken.
SpecFair ==
    /\ Init
    /\ [][Next]_vars
    /\ WF_vars(Start)
    /\ WF_vars(Finish)
    /\ ([]<>~Running \/ []<><<Next>>_vars)

\* Fresh runs with small targets, and a generator that may change its way of
\* failing once more often.
InitDeep ==
    \E T \in 1..MaxTarget :
        /\ Request(T, FALSE, FALSE, <<>>, "asked", MaxFaults + 1)
        /\ others = <<>>
        /\ NoCall
        /\ NoWeb
        /\ NoSide

SpecDeep == InitDeep /\ [][Next]_vars

\* The plan of a run (batch size, number of batches, the quota of each
\* batch) for large targets and lists, with a generator that answers every
\* call with the array it was asked for.
InitPlan ==
    \E T \in 1..MaxPlanTarget, app \in BOOLEAN, n \in 0..MaxPlanExisting :
        /\ ~app => n = 0
        /\ Request(T, app, FALSE, IF app THEN <<ParsedList(ExistingRecords(n))>> ELSE <<>>,
                   "asked", 0)
        /\ others = <<>>
        /\ NoCall
        /\ NoWeb
        /\ NoSide

NextPlan ==
    \/ Start
    \/ BatchTry("full")
    \/ PostProcess
    \/ Finish

SpecPlan == InitPlan /\ [][NextPlan]_vars

\* Runs long enough for the history list to outgrow the window of the
\* prompt, fresh or appending to a short list, with a generator that may
\* once answer with fewer records than asked for.
InitHist ==
    \E T \in 1..MaxHistTarget, app \in BOOLEAN, n \in 0..MaxExisting :
        /\ ~app => n = 0
        /\ Request(T, app, FALSE, IF app THEN <<ParsedList(ExistingRecords(n))>> ELSE <<>>,
                   "asked", 1)
        /\ others = <<>>
        /\ NoCall
        /\ NoWeb
        /\ NoSide

NextHist ==
    \/ Start
    \/ \E shape \in {"full", "short"} : BatchTry(shape)
    \/ PostProcess
    \/ \E shape \in {"full", "short"} : SupplementTry(shape)
    \/ Finish

SpecHist == InitHist /\ [][NextHist]_vars

\* Overwriting runs on tables of up to MaxRecords records of the user, with
\* or without a record of the same project and text that is not the user's.
OverwriteDbs ==
    LET payloads == {ParsedList(ExistingRecords(1)), ParseFailure(<<TXT>>)}
    IN  UNION {[1..n -> payloads] : n \in 0..MaxRecords}

\* a record that is not the user's: its payload, and whether it was created
\* after every record of db
InitialOthers ==
    {<<>>} \cup {<<[payload |-> ParsedList(ExistingRecords(2)), newer |-> b]>> : b \in BOOLEAN}

InitOverwrite ==
    \E T \in 1..MaxTarget, app \in BOOLEAN, table \in OverwriteDbs :
        /\ Request(T, app, TRUE, table, "asked", MaxFaults)
        /\ others \in InitialOthers
        /\ NoCall
        /\ NoWeb
        /\ NoSide

NextOverwrite ==
    \/ Start
    \/ \E shape \in {"full", "short", "text", "empty"} : BatchTry(shape)
    \/ PostProcess
    \/ \E shape \in {"full", "short", "text", "empty"} : SupplementTry(shape)
    \/ Finish

SpecOverwrite == InitOverwrite /\ [][NextOverwrite]_vars

\* ------------------------------- clean_and_parse_json, called on its own
\* no run of the generator
AtRest ==
    /\ append = FALSE
    /\ overwrite = FALSE
    /\ expected_count = 1
    /\ requested = 1
    /\ idmode = "asked"
    /\ db = <<>>
    /\ others = <<>>
    /\ existing_entry = 0
    /\ existing_cases = ParsedList(<<>>)
    /\ start_id = 1
    /\ batch_size = 10
    /\ total_batches = 0
    /\ i = 0
    /\ current_id = 1
    /\ current_batch_count = 0
    /\ generated_in_batch = 0
    /\ attempt = 0
    /\ batch_content = <<>>
    /\ full_content = <<>>
    /\ history_summaries = <<>>
    /\ parsed_result = ParsedList(<<>>)
    /\ current_total = 0
    /\ missing = 0
    /\ supplement_attempt = 0
    /\ out = <<>>
    /\ calls = <<>>
    /\ quotas = <<>>
    /\ batch_parsed = <<>>
    /\ ntags = 0
    /\ budget = 0
    /\ faults = 0

run_vars == <<append, overwrite, expected_count, requested, idmode, db, others,
              existing_entry, existing_cases, start_id, batch_size, total_batches,
              i, current_id, current_batch_count, generated_in_batch, attempt,
              batch_content, full_content, history_summaries, parsed_result,
              current_total, missing, supplement_attempt, out, calls, quotas,
              batch_parsed, ntags, budget, faults>>

FENCE == Tok("fence")

\* an object written as a Python literal
SqObj(idkind, idnum, tag) ==
    [k |-> "sqobj", idk |-> idkind, idn |-> idnum, d |-> tag, f |-> Canon]

Alphabet == {LB, RB, COMMA, NL, TXT, CUT, FENCE, Obj("tc", 1, 1), SqObj("tc", 2, 2)}

BoundedTexts == UNION {[1..n -> Alphabet] : n \in 0..MaxLen}

\* the objects of an array that is written out
Items(n, from) == [j \in 1..n |-> Obj("tc", from + j - 1, from + j - 1)]

SqItems(n) == [j \in 1..n |-> SqObj("tc", j, j)]

\* items, separated by commas
RECURSIVE Joined(_)
Joined(items) ==
    IF items = <<>> THEN <<>>
    ELSE IF Len(items) = 1 THEN <<items[1]>>
    ELSE <<items[1], COMMA, NL>> \o Joined(Tail(items))

ArrayText(items) == <<LB>> \o Joined(items) \o <<RB>>

\* what may stand between two arrays: white space, prose, prose with a
\* word in brackets
Strays == {<<NL>>, <<TXT>>, <<NL, TXT, NL>>, <<TXT, LB, TXT, RB, TXT>>}

WrittenShapes == {"clean", "fenced", "comma", "open", "concat", "literal"}

\* the text of n (and, concatenated, m more) objects written in a shape
WrittenText(sh, n, m, stray) ==
    CASE sh = "clean" -> ArrayText(Items(n, 1))
      [] sh = "fenced" -> <<TXT, NL, FENCE, Tok("json"), NL>> \o ArrayText(Items(n, 1))
                              \o <<NL, FENCE, NL, TXT>>
      [] sh = "comma" -> <<LB>> \o Joined(Items(n, 1)) \o <<COMMA, NL, RB>>
      [] sh = "open" -> <<LB>> \o Joined(Items(n, 1))
      [] sh = "concat" -> ArrayText(Items(n, 1)) \o stray \o ArrayText(Items(m, n + 1))
      [] sh = "literal" -> ArrayText(SqItems(n))

WrittenItems(sh, n, m) ==
    CASE sh = "concat" -> Items(n, 1) \o Items(m, n + 1)
      [] sh = "literal" -> SqItems(n)
      [] OTHER -> Items(n, 1)

InitParse ==
    /\ pc = "parse"
    /\ AtRest
    /\ NoWeb
    /\ NoSide
    /\ result = ParsedList(<<>>)
    /\ normalized = ParsedList(<<>>)
    /\ \/ /\ response_text \in BoundedTexts
          /\ written = "any"
          /\ intended = <<>>
       \/ \E sh \in WrittenShapes, n \in 0..MaxItems, m \in 0..MaxItems, stray \in Strays :
             /\ sh # "concat" => m = 0 /\ stray = <<NL>>
             /\ sh = "comma" => n > 0
             /\ response_text = WrittenText(sh, n, m, stray)
             /\ written = sh
             /\ intended = WrittenItems(sh, n, m)

\* a call of clean_and_parse_json(response_text)
Parse ==
    /\ pc = "parse"
    /\ result' = clean_and_parse_json(response_text)
    /\ pc' = "parsed"
    /\ UNCHANGED <<run_vars, response_text, written, intended, normalized, web, side_vars>>

SpecParse == InitParse /\ [][Parse]_vars

\* ---------------------------- normalize_json_structure, called on its own
RawObj(idkind, idnum, tag, fields) ==
    [k |-> "obj", idk |-> idkind, idn |-> idnum, d |-> tag, f |-> fields]

\* values of a list field as models write them
RawLists ==
    {ListValue("none", <<>>), ListValue("list", <<>>), ListValue("list", <<0>>),
     ListValue("list", <<-1, 0, 2>>), ListValue("str", <<1, 0, 2>>),
     ListValue("str", <<0>>), ListValue("other", <<1>>)}

RawPriorities ==
    {"none", "", "P0", "P2", "p2", " P0 ", "HIGH", "low", "gao", "zhong", "di", "urgent"}

RawTexts == {"none", "empty", "blank", "padded"}

\* fields that differ from Canon in one place
RawFields ==
    {[Canon EXCEPT !.steps = v] : v \in RawLists}
    \cup {[Canon EXCEPT !.preconditions = v] : v \in RawLists}
    \cup {[Canon EXCEPT !.priority = v] : v \in RawPriorities}
    \cup {[Canon EXCEPT !.description = v] : v \in RawTexts}
    \cup {[Canon EXCEPT !.test_module = v] : v \in RawTexts}
    \cup {[Canon EXCEPT !.test_input = v] : v \in RawTexts}
    \cup {[Canon EXCEPT !.expected_result = v] : v \in RawTexts}
    \cup {[Canon EXCEPT !.extra = TRUE], NoFields}

\* the items of a decoded list: objects with ids of every kind, objects with
\* fields of every kind, and items that are no objects
RawItems ==
    {RawObj(idkind, n, n, Canon) : idkind \in {"tc", "num"}, n \in 1..2}
    \cup {RawObj(idkind, 0, 3, Canon) : idkind \in {"none", "junk"}}
    \cup {RawObj("tc", 1, 1, fields) : fields \in RawFields}
    \cup {ARR, TXT}

NormInputs ==
    {ParsedList(items) : items \in UNION {[1..n -> RawItems] : n \in 0..MaxNormItems}}
    \cup {ParsedDict(Obj("none", 0, 1)), ParseFailure(<<TXT>>)}

InitNorm ==
    /\ pc = "parsed"
    /\ AtRest
    /\ response_text = <<>>
    /\ written = "none"
    /\ intended = <<>>
    /\ result \in NormInputs
    /\ NoWeb
    /\ NoSide
    /\ normalized = ParsedList(<<>>)

\* a call of normalize_json_structure(result)
Normalize ==
    /\ pc = "parsed"
    /\ normalized' = normalize_json_structure(result)
    /\ pc' = "normalized"
    /\ UNCHANGED <<run_vars, response_text, written, intended, result, web, side_vars>>

SpecNorm == InitNorm /\ [][Normalize]_vars

\* ------------------------------------------- runs with ids of every kind
InitIds ==
    \E T \in 1..MaxTarget, app \in BOOLEAN, n \in 0..MaxExisting, mode \in IdModes :
        /\ ~app => n = 0
        /\ Request(T, app, FALSE, IF app THEN <<ParsedList(ExistingRecords(n))>> ELSE <<>>,
                   mode, MaxFaults)
        /\ others = <<>>
        /\ NoCall
        /\ NoWeb
        /\ NoSide

NextIds ==
    \/ Start
    \/ \E sh \in {"full", "short", "over"} : BatchTry(sh)
    \/ PostProcess
    \/ \E sh \in {"full", "short", "over"} : SupplementTry(sh)
    \/ Finish

SpecIds == InitIds /\ [][NextIds]_vars

\* ------------------------------ main.py, generate_tests_stream (endpoint)
DuplicateLine(n) == [k |-> "dup", text |-> <<>>, id |-> n]

FileError == Yield("line", <<Tok("Error:"), Tok("file")>>)

\* the record the lookup finds is the oldest one
existing_gen_oldest(table) == IF table = <<>> THEN 0 ELSE 1

\* lines 1771-1775 (1746-1750): the most recent record of this project,
\* requirement text and user; its id is its place in the table, 0: None
existing_gen(table) == Len(table)

\* knowledge_base.add_document, lines 118-125: the content is a duplicate
kb_duplicate(kb, force) == kb /\ ~force

\* lines 1726-1803: the endpoint up to the call of the generator
Receive ==
    /\ pc = "start"
    /\ web.stage = "received"
    /\ \E parsed_ok \in BOOLEAN :
         LET found == existing_gen(db)
             hit == IF web.via = "file"
                    THEN kb_duplicate(web.kb, overwrite) /\ ~append /\ found # 0
                    ELSE ~overwrite /\ ~append /\ found # 0
             before == IF web.via = "file" THEN <<Status, Status, Status>> ELSE <<Status>>
         IN  /\ web.via # "file" => parsed_ok
             /\ web' =
                   IF web.via = "file" /\ ~parsed_ok
                   THEN [web EXCEPT !.stage = "failed", !.lines = <<Status, Status, FileError>>]
                   ELSE IF hit
                   THEN [web EXCEPT !.stage = "duplicate",
                                    !.lines = before \o <<DuplicateLine(found)>>]
                   ELSE [web EXCEPT !.stage = "passed",
                                    !.kb = (web.via = "file" \/ web.kb),
                                    !.lines = before \o <<Status>>]
    /\ UNCHANGED <<pc, run_vars, call_vars, side_vars>>

\* lines 1805-1820: the endpoint streams what the generator yields
Generate ==
    /\ web.stage = "passed"
    /\ Start

InitEndpoint ==
    \E T \in 1..MaxTarget, app \in BOOLEAN, force \in BOOLEAN, table \in OverwriteDbs,
       via \in {"text", "file"}, kb \in BOOLEAN :
        /\ Request(T, app, force, table, "asked", 0)
        /\ others = <<>>
        /\ NoCall
        /\ web = Web(via, kb, "received", table, <<>>)
        /\ NoSide

NextEndpoint ==
    \/ Receive
    \/ Generate
    \/ BatchTry("full")
    \/ PostProcess
    \/ Finish

SpecEndpoint == InitEndpoint /\ [][NextEndpoint]_vars

\* ------------------------------- modules/knowledge_base.py, the documents
\* A document is a row of knowledge_documents: its id, project_id, doc_type,
\* content_hash, project_specific_id and created_at.  store.docs holds the
\* rows in the order of their ids, store.now is the server's now() in whole
\* seconds (models.py line 403: a DateTime column with server_default
\* func.now()), store.op the last call (for add_document with its
\* arguments) and store.ret what it returned.
Projects == {"p", "q"}

Contents == {"c", "e"}

DocTypes == {"requirement", "incomplete"}

\* line 63: SHA256 of the content, taken to be free of collisions
calculate_hash(content) == <<"sha256", content>>

Document(id, project_id, doc_type, content, created_at) ==
    [id |-> id, project_id |-> project_id, doc_type |-> doc_type,
     content_hash |-> calculate_hash(content), project_specific_id |-> 0,
     created_at |-> created_at]

\* the lookup finds no row
existing_docs_none(docs, content_hash, project_id) == {}

\* lines 118-121: the rows of this content and project
existing_docs(docs, content_hash, project_id) ==
    {j \in 1..Len(docs) : /\ docs[j].content_hash = content_hash
                          /\ docs[j].project_id = project_id}

\* lines 79-82: the rows of a type in a project
remaining_docs(docs, doc_type, project_id) ==
    {j \in 1..Len(docs) : /\ docs[j].doc_type = doc_type
                          /\ docs[j].project_id = project_id}

\* line 82: order_by(created_at.asc()); rows of one second come in an order
\* the query does not determine
Rankings(docs, rows) ==
    {r \in [rows -> 1..Cardinality(rows)] :
        /\ \A a \in rows, b \in rows : a # b => r[a] # r[b]
        /\ \A a \in rows, b \in rows :
              docs[a].created_at < docs[b].created_at => r[a] < r[b]}

\* lines 65-91: the tables reindex_project_specific_ids may leave
reindex_project_specific_ids(docs, doc_type, project_id) ==
    {[j \in 1..Len(docs) |->
         IF j \in DOMAIN r THEN [docs[j] EXCEPT !.project_specific_id = r[j]] ELSE docs[j]] :
       r \in Rankings(docs, remaining_docs(docs, doc_type, project_id))}

Without(docs, j) == SubSeq(docs, 1, j - 1) \o SubSeq(docs, j + 1, Len(docs))

DocReturn(doc) == [t |-> "doc", id |-> doc.id, project_specific_id |-> doc.project_specific_id]

\* lines 102-186: add_document
AddDocument(content, doc_type, project_id, force) ==
    LET existing == existing_docs(store.docs, calculate_hash(content), project_id)
        op == [name |-> "add", content |-> content, project_id |-> project_id,
               force |-> force]
    IN  IF existing # {}
        THEN \E j \in existing :
                store' = [store EXCEPT
                    !.op = op,
                    !.ret = IF ~force
                            THEN [t |-> "duplicate", existing_doc_id |-> store.docs[j].id]
                            ELSE DocReturn(store.docs[j])]
        ELSE /\ store.next_id <= MaxDocIds
             /\ \E table \in reindex_project_specific_ids(
                                Append(store.docs, Document(store.next_id, project_id,
                                                            doc_type, content, store.now)),
                                doc_type, project_id) :
                  store' = [store EXCEPT
                      !.docs = table,
                      !.next_id = store.next_id + 1,
                      !.op = op,
                      !.ret = DocReturn(table[Len(table)])]

\* lines 434-436 (359-361): the row a call means by doc_id, looked up by one
\* column first and by the other if no row is found; first() of a query
\* without an order is any of its rows
FoundRows(docs, doc_id, by_specific_first) ==
    LET by_specific == {j \in 1..Len(docs) : docs[j].project_specific_id = doc_id}
        by_id == {j \in 1..Len(docs) : docs[j].id = doc_id}
    IN  IF by_specific_first
        THEN IF by_specific # {} THEN by_specific ELSE by_id
        ELSE IF by_id # {} THEN by_id ELSE by_specific

\* lines 422-460: delete_document
DeleteDocument(doc_id) ==
    LET found == FoundRows(store.docs, doc_id, TRUE)
        op == [name |-> "delete"]
    IN  IF found = {}
        THEN store' = [store EXCEPT !.op = op, !.ret = [t |-> "false"]]
        ELSE \E j \in found :
               \E table \in reindex_project_specific_ids(
                                Without(store.docs, j), store.docs[j].doc_type,
                                store.docs[j].project_id) :
                  store' = [store EXCEPT !.docs = table, !.op = op, !.ret = [t |-> "true"]]

\* lines 346-420: update_document; doc_type "none" is a type not given
UpdateDocument(doc_id, content, doc_type) ==
    LET found == FoundRows(store.docs, doc_id, FALSE)
        op == [name |-> "update"]
    IN  IF found = {}
        THEN store' = [store EXCEPT !.op = op, !.ret = [t |-> "none"]]
        ELSE \E j \in found :
               LET original_doc_type == store.docs[j].doc_type
                   project_id == store.docs[j].project_id
                   updated == [store.docs EXCEPT
                                  ![j].content_hash = calculate_hash(content),
                                  ![j].doc_type = IF doc_type # "none" THEN doc_type
                                                  ELSE original_doc_type]
               IN  \E first \in reindex_project_specific_ids(updated, original_doc_type, project_id) :
                     \E table \in reindex_project_specific_ids(first, doc_type, project_id) :
                        store' = [store EXCEPT !.docs = table, !.op = op,
                                               !.ret = DocReturn(table[j])]

\* a second passes; seconds in which no document was created are left out
Tick ==
    /\ \E j \in 1..Len(store.docs) : store.docs[j].created_at = store.now
    /\ store' = [store EXCEPT !.now = store.now + 1]

InitStore ==
    /\ pc = "store"
    /\ AtRest
    /\ NoCall
    /\ NoWeb
    /\ store = NoStore
    /\ prep = NoPrep
    /\ rival = NoRival

NextStore ==
    /\ \/ \E content \in Contents, doc_type \in DocTypes, project_id \in Projects,
            force \in BOOLEAN : AddDocument(content, doc_type, project_id, force)
       \/ \E doc_id \in 1..MaxDocIds : DeleteDocument(doc_id)
       \/ \E doc_id \in 1..MaxDocIds, content \in Contents, doc_type \in DocTypes \cup {"none"} :
             UpdateDocument(doc_id, content, doc_type)
       \/ Tick
    /\ UNCHANGED <<pc, run_vars, call_vars, web, prep, rival>>

SpecStore == InitStore /\ [][NextStore]_vars

\* --------------------- generate_test_cases_stream, the context (502-585)
\* A text is known by how it begins: "original" is the requirement as the
\* caller passed it, "all" what get_all_context returns, "retrieved" what
\* get_relevant_context returns, "summary" a compressed text, "" the empty
\* string; "Error:", "Exception" and "quota" are the texts a provider
\* returns in place of an answer (ai_client.py lines 645, 113-129: "Error:
\* ...", "Exception occurred: ...", "[额度耗尽] ...").
Sentinels == {"Error:", "Exception", "quota"}

\* what client.compress_context may do: return a text, or raise
CompressResults == {"summary", ""} \cup Sentinels \cup {"raise"}

\* text.startswith("Error"), text.startswith("Exception")
startswith_Error(text) == text = "Error:"

startswith_Exception(text) == text = "Exception"

\* line 517: the compressed knowledge is accepted
kb_summary_ok(kb_summary) ==
    /\ kb_summary \notin {"", "raise"}
    /\ ~startswith_Error(kb_summary)
    /\ ~startswith_Exception(kb_summary)

\* lines 541, 563, 579: the compressed text is accepted
compressed_ok(compressed) ==
    /\ compressed \notin {"", "raise"}
    /\ ~startswith_Error(compressed)

\* a request with the compress flag, what the knowledge base holds for the
\* project (nothing, or documents: all_context "all"), what retrieval finds
\* ("" or "retrieved"), whether requirement and retrieved context are
\* longer than 120000 characters, and what compress_context will answer
\* for the knowledge and for the requirement
Asked(compress, all_context, found, long_req, long_kb, kb_answer, req_answer) ==
    [stage |-> "asked", compress |-> compress, all_context |-> all_context,
     found |-> found, long_req |-> long_req, long_kb |-> long_kb,
     kb_answer |-> kb_answer, req_answer |-> req_answer,
     requirement |-> "original", kb_context |-> "", compressions |-> 0]

\* lines 502-585: what the prompts of the run will hold
Prepare ==
    /\ pc = "start"
    /\ prep.stage = "asked"
    /\ LET kb_tried == prep.compress /\ prep.all_context # ""
           kb_compression_success == kb_tried /\ kb_summary_ok(prep.kb_answer)
           late_req == ~prep.compress /\ prep.long_req
           late_kb == ~prep.compress /\ prep.found # "" /\ prep.long_kb
           requirement ==
               IF (prep.compress \/ late_req) /\ compressed_ok(prep.req_answer)
               THEN prep.req_answer ELSE "original"
           kb_context ==
               IF kb_compression_success THEN prep.kb_answer
               ELSE IF late_kb /\ compressed_ok(prep.kb_answer) THEN prep.kb_answer
               ELSE prep.found
           n == (IF kb_tried \/ late_kb THEN 1 ELSE 0)
                + (IF prep.compress \/ late_req THEN 1 ELSE 0)
       IN  prep' = [prep EXCEPT !.stage = "prepared", !.requirement = requirement,
                                !.kb_context = kb_context, !.compressions = n]
    /\ UNCHANGED <<pc, run_vars, call_vars, web, store, rival>>

\* lines 660-705: the run goes on with the texts it has
Proceed ==
    /\ prep.stage = "prepared"
    /\ Start

InitPrep ==
    \E T \in 1..MaxTarget, compress \in BOOLEAN, all_context \in {"", "all"},
       found \in {"", "retrieved"}, long_req \in BOOLEAN, long_kb \in BOOLEAN,
       kb_answer \in CompressResults, req_answer \in CompressResults :
        /\ Request(T, FALSE, FALSE, <<>>, "asked", 0)
        /\ others = <<>>
        /\ NoCall
        /\ NoWeb
        /\ store = NoStore
        /\ rival = NoRival
        /\ prep = Asked(compress, all_context, found, long_req, long_kb, kb_answer, req_answer)

NextPrep ==
    \/ Prepare
    \/ Proceed
    \/ BatchTry("full")
    \/ PostProcess
    \/ Finish

SpecPrep == InitPrep /\ [][NextPrep]_vars

\* ------------------------------------ two runs on one record (append)
\* Another request of the same user, for the same project and requirement
\* text, in append mode.  Each request has a database session of its own;
\* what the two runs share is the table.  The other run is the same
\* function, looked at where it touches the table: its lookup at the start
\* (lines 484-500) and its write at the end (lines 914-920).  Its generator
\* answers every call with the array that was asked for.
RivalTag(j) == -(MaxExisting + j)

\* the records the other run parses: ids from its start_id on
RivalRecords(sid, n) == [j \in 1..n |-> Obj("tc", sid + j - 1, RivalTag(j))]

Waiting(T) == [pc |-> "idle", T |-> T]

\* lines 484-500: the other run looks the record up and decodes its list
RivalStart ==
    /\ rival.pc = "idle"
    /\ LET entry == Len(db)
           cases == IF entry # 0 THEN db[entry] ELSE ParsedList(<<>>)
           sid == IF entry # 0 /\ IsList(cases) THEN Len(cases.items) + 1 ELSE 1
           bs == plan_batch_size(TRUE, rival.T, cases)
           expected == plan_expected(TRUE, rival.T, cases, bs)
       IN  rival' = [pc |-> "running", T |-> rival.T, entry |-> entry, cases |-> cases,
                     new |-> RivalRecords(sid, expected - (sid - 1))]
    /\ UNCHANGED <<pc, run_vars, call_vars, web, store, prep>>

\* lines 914-929: existing_cases + parsed_result goes into the record that
\* was found at the start; no record found, one is created
rival_merge(table, entry, cases, new) ==
    IF entry # 0
    THEN IF IsList(cases)
         THEN [table EXCEPT ![entry] = ParsedList(cases.items \o new)]
         ELSE table
    ELSE Append(table, ParsedList(new))

RivalFinish ==
    /\ rival.pc = "running"
    /\ db' = rival_merge(db, rival.entry, rival.cases, rival.new)
    /\ rival' = [rival EXCEPT !.pc = "done"]
    /\ UNCHANGED <<pc, append, overwrite, expected_count, requested, idmode,
                   existing_entry, existing_cases, start_id, batch_size,
                   total_batches, i, current_id, current_batch_count,
                   generated_in_batch, attempt, batch_content, full_content,
                   history_summaries, parsed_result, current_total, missing,
                   supplement_attempt, out, calls, quotas, batch_parsed, ntags,
                   budget, faults, others, call_vars, web, store, prep>>

InitRace ==
    \E T \in 1..MaxTarget, RT \in 1..MaxTarget, n \in 1..MaxExisting :
        /\ Request(T, TRUE, FALSE, <<ParsedList(ExistingRecords(n))>>, "asked", MaxFaults)
        /\ others = <<>>
        /\ NoCall
        /\ NoWeb
        /\ store = NoStore
        /\ prep = NoPrep
        /\ rival = Waiting(RT)

NextRace ==
    \/ Start
    \/ \E shape \in {"full", "short"} : BatchTry(shape)
    \/ PostProcess
    \/ \E shape \in {"full", "short"} : SupplementTry(shape)
    \/ Finish
    \/ RivalStart
    \/ RivalFinish

SpecRace == InitRace /\ [][NextRace]_vars

\* ============================================================ properties
Done == pc = "done"

IsPrefix(a, b) == Len(a) <= Len(b) /\ a = SubSeq(b, 1, Len(a))

IsErrorLine(y) == y.k = "line" /\ y.text # <<>> /\ y.text[1].k = "Error:"

ProviderShapes == {"err", "miderr", "quota"}

ProviderErrorSeen == \E j \in 1..Len(calls) : calls[j].shape \in ProviderShapes

\* the record the run wrote (or, having nothing to write, left as it was)
RunRecord == db[Len(db)]

PersistedCount == IF IsList(RunRecord) THEN Len(RunRecord.items) ELSE 0

\* records that were in the list when the run started
Pre == IF append /\ IsList(existing_cases) THEN Len(existing_cases.items) ELSE 0

Tags(items) == {items[j].d : j \in 1..Len(items)}

\* C1 (as claimed): at the end of a run the persisted record holds exactly
\* expected_count records unless a provider error occurred; then it holds at
\* most expected_count and the stream has an "Error:" line.
C1_CountContract ==
    Done => IF ~ProviderErrorSeen
            THEN PersistedCount = expected_count
            ELSE /\ PersistedCount <= expected_count
                 /\ \E j \in 1..Len(out) : IsErrorLine(out[j])

\* the record is written by the create, overwrite-alone or append-to-a-list
\* branch
PlainMode == ~(overwrite /\ append) /\ (append => IsList(existing_cases))

\* C1 (amended): at the end of a run the persisted record never holds more
\* than expected_count records.  It holds exactly expected_count when the
\* batches and supplements together yielded a list that reaches the target
\* (the run not being overwrite and append at once, and not an append to a
\* payload that is no list): a shortfall left after the supplement calls, or
\* an unparseable result, is persisted as it is, with or without a provider
\* error.  When a provider-error chunk occurred, the provider's text is a
\* line of the stream (a line beginning "Error:" when the chunk did).
C1_CountAtMostTarget ==
    Done => /\ PersistedCount <= expected_count
            /\ (IsList(parsed_result) /\ current_total >= expected_count /\ PlainMode)
                   => PersistedCount = expected_count
            /\ (\A j \in 1..Len(calls) : calls[j].shape = "full") => current_total >= expected_count
            /\ ProviderErrorSeen
                   => \E j \in 1..Len(out) : out[j].k = "line" /\ IsProviderError(out[j].text)
            /\ (\E j \in 1..Len(calls) : calls[j].shape \in {"err", "miderr"})
                   => \E j \in 1..Len(out) : IsErrorLine(out[j])

\* a run without provider error that ends below the target after supplements
C1_Witness ==
    /\ Done
    /\ ~ProviderErrorSeen
    /\ \E j \in 1..Len(calls) : calls[j].ph = "supp"
    /\ IsList(RunRecord)
    /\ 0 < PersistedCount
    /\ PersistedCount < expected_count

\* C2 (as claimed): in a run with the append flag and a matching record, the
\* list the record had at the start is a prefix of the list it has later.
C2_AppendKeepsPrior ==
    (append /\ existing_entry # 0 /\ IsList(existing_cases))
        => /\ IsList(db[existing_entry])
           /\ IsPrefix(existing_cases.items, db[existing_entry].items)

\* C2 (amended): the same, for runs with the append flag and without the
\* overwrite flag.
C2_AppendOnlyKeepsPrior ==
    (append /\ ~overwrite /\ existing_entry # 0 /\ IsList(existing_cases))
        => /\ IsList(db[existing_entry])
           /\ IsPrefix(existing_cases.items, db[existing_entry].items)

\* an append run on a list with records has ended and has added to it
C2_Witness ==
    /\ Done
    /\ append /\ ~overwrite /\ existing_entry # 0
    /\ IsList(existing_cases) /\ existing_cases.items # <<>>
    /\ Len(db[existing_entry].items) > Len(existing_cases.items)

\* C3 (as claimed): a line beginning "Error:" is the last thing the stream
\* yields.
C3_ErrorLineIsLast ==
    \A j \in 1..Len(out) : IsErrorLine(out[j]) => j = Len(out)

\* C4 (as claimed): after a batch try that met a provider-error chunk no
\* further generation call is issued.
C4_NoCallAfterProviderError ==
    \A j \in 1..Len(calls) :
        (calls[j].ph = "batch" /\ calls[j].shape \in ProviderShapes) => j = Len(calls)

\* C7 (as claimed): a run ends with the GEN_QM line or with an "Error:" line.
C7_TerminalSignal ==
    Done => /\ out # <<>>
            /\ \/ out[Len(out)] = MetricsLine
               \/ IsErrorLine(out[Len(out)])

\* the records the batches before batch b counted, in order
PriorRecords(b) == Flatten(SubSeq(batch_parsed, 1, b - 1))

\* C5 (as claimed): when batches 1..i-1 each produced parseable records and a
\* provider-error chunk occurs in batch i, the records of batches 1..i-1, up
\* to truncation at the target, are in the payload persisted at the end of
\* the run, whatever the persistence mode.
C5_RecordsSurviveProviderError ==
    Done =>
        \A j \in 1..Len(calls) :
            (/\ calls[j].ph = "batch"
             /\ calls[j].shape \in ProviderShapes
             /\ \A b \in 1..(calls[j].b - 1) : batch_parsed[b] # <<>>)
            => LET prior == PriorRecords(calls[j].b)
                   kept == SubSeq(prior, 1, Min2(Len(prior), target_new_count(expected_count)))
               IN  Tags(kept) \subseteq Tags(RunRecord.items)

NoContentCount(o) == Cardinality({j \in 1..Len(o) : o[j] = NoContentError})


EmptyTry(c) == c.ph = "batch" /\ c.shape = "empty"

\* C6 (as claimed): the "no content" Error line of a batch is emitted only
\* after an empty try of that batch was followed by another try of it.
C6_EmptyAlwaysRetried ==
    [][NoContentCount(out') > NoContentCount(out)
           => \E j \in 1..Len(calls) : EmptyTry(calls[j]) /\ calls[j].b = i + 1]_vars

\* C6 (amended): an empty try is followed by another try of its batch when
\* it is the batch's first or second try; an empty third try ends the batch
\* with the "no content" Error line, also when no try before it was empty;
\* the line is emitted at no other time.
C6_EmptyRetriedUnlessThird ==
    [][LET c == calls'[Len(calls')]
       IN  IF Len(calls') = Len(calls) + 1 /\ EmptyTry(c)
           THEN IF c.a < MaxAttempts
                THEN /\ pc' = "batch" /\ i' = i /\ attempt' = c.a
                     /\ NoContentCount(out') = NoContentCount(out)
                ELSE /\ i' = i + 1
                     /\ out'[Len(out')] = NoContentError
                     /\ NoContentCount(out') = NoContentCount(out) + 1
           ELSE NoContentCount(out') = NoContentCount(out)]_vars

\* two partial tries, then an empty third try: the Error line has been emitted
C6_Witness ==
    /\ Len(calls) >= 3
    /\ calls[1].shape = "short" /\ calls[2].shape = "short"
    /\ calls[2].b = 1
    /\ EmptyTry(calls[3]) /\ calls[3].b = 1 /\ calls[3].a = MaxAttempts
    /\ NoContentCount(out) = 1

\* C8: when the combined count exceeds the target after batches and
\* supplements, the new list is cut to its first target - pre-existing
\* records (never fewer than none), the combined count is the target, and the
\* existing records stay as they were.
C8_Truncation ==
    [][(/\ pc = "final" /\ pc' = "done"
        /\ IsList(parsed_result)
        /\ total_of(parsed_result) > expected_count)
       => /\ parsed_result' =
                 ParsedList(SubSeq(parsed_result.items, 1, Max2(0, expected_count - Pre)))
          /\ total_of(parsed_result') = expected_count
          /\ existing_cases' = existing_cases
          /\ (append /\ ~overwrite /\ existing_entry # 0 /\ IsList(existing_cases))
                 => db'[existing_entry] =
                        ParsedList(existing_cases.items \o parsed_result'.items)]_vars

\* an append run on a list with records has cut its new records
C8_Witness ==
    /\ Done
    /\ \E j \in 1..Len(out) : out[j] = CutStatus
    /\ append /\ ~overwrite /\ Pre > 0
    /\ Len(parsed_result.items) = expected_count - Pre
    /\ PersistedCount = expected_count

RECURSIVE Sum(_)
Sum(q) == IF q = <<>> THEN 0 ELSE q[1] + Sum(Tail(q))

\* no records were there before the run
Fresh == ~append \/ (IsList(existing_cases) /\ existing_cases.items = <<>>)

\* C9: a run without pre-existing records and target T plans ceil(T/25)
\* batches; every batch but the last asks for 25, the quotas sum to T; for
\* T = 30 the batches ask for 25 and 5.
C9_FreshPlan ==
    (pc # "start" /\ Fresh) =>
        /\ expected_count = requested
        /\ total_batches = CeilDiv(requested, BatchCap)
        /\ Len(quotas) <= total_batches
        /\ \A b \in 1..Len(quotas) :
               quotas[b] = IF b < total_batches THEN BatchCap
                           ELSE requested - BatchCap * (total_batches - 1)
        /\ pc # "batch" => /\ Len(quotas) = total_batches
                           /\ Sum(quotas) = requested
                           /\ requested = 30 => quotas = <<25, 5>>

\* the run for 30 cases has run its two batches
C9_Witness ==
    /\ Done /\ ~append /\ requested = 30
    /\ quotas = <<25, 5>>
    /\ Len(calls) = 2
    /\ PersistedCount = 30

\* C10: in append mode with E existing records and a target that is not
\* above E, the target becomes E + batch_size, batch_size being the batch
\* size of the plan, and at least one batch is planned and run.
C10_AutoContinuation ==
    (pc # "start" /\ append /\ IsList(existing_cases)
     /\ Len(existing_cases.items) >= requested)
        => /\ batch_size = plan_batch_size(append, requested, existing_cases)
           /\ expected_count = Len(existing_cases.items) + batch_size
           /\ total_batches >= 1
           /\ quotas # <<>>
           /\ pc # "batch" => \E j \in 1..Len(calls) : calls[j].ph = "batch"

\* 10 existing records, target 10: the run went for 10 + batch_size records
C10_Witness ==
    /\ Done /\ append /\ requested = 10
    /\ IsList(existing_cases) /\ Len(existing_cases.items) = 10
    /\ expected_count = 10 + batch_size
    /\ PersistedCount = expected_count
    /\ \E j \in 1..Len(calls) : calls[j].ph = "batch"

\* the entries of a sequence, as a set
Range(q) == {q[j] : j \in 1..Len(q)}

BatchCalls == {j \in 1..Len(calls) : calls[j].ph = "batch"}

\* the last min(HistoryWindow, Len(h)) entries of h
LastEntries(h) ==
    [j \in 1..Min2(HistoryWindow, Len(h)) |-> h[Len(h) - Min2(HistoryWindow, Len(h)) + j]]

HistoryGrows ==
    \A j, h \in 1..Len(calls) : j < h => IsPrefix(calls[j].history, calls[h].history)

WindowIsRecent ==
    \A j \in BatchCalls : calls[j].window = LastEntries(calls[j].history)

\* C11 (as claimed): the history list only grows, each batch prompt holds
\* the most recent min(50, length) entries, and the history passed to batch
\* i+1 holds every entry of the history passed to batch i.
C11_HistorySuperset ==
    /\ HistoryGrows
    /\ WindowIsRecent
    /\ \A j, h \in BatchCalls :
          calls[h].b = calls[j].b + 1 => Range(calls[j].window) \subseteq Range(calls[h].window)

\* C11 (amended): the history list only grows, each batch prompt holds the
\* most recent min(50, length) entries, and the history passed to batch i+1
\* holds every entry of the history passed to batch i as long as the list
\* has at most 50 entries when batch i+1 is prompted.
C11_HistorySupersetInWindow ==
    /\ HistoryGrows
    /\ WindowIsRecent
    /\ \A j, h \in BatchCalls :
          calls[h].b = calls[j].b + 1 /\ calls[h].hlen <= HistoryWindow
              => Range(calls[j].window) \subseteq Range(calls[h].window)

\* a finished run whose list outgrew the window, and which had two batches
\* in a row prompted with a non-empty history that still fitted
C11_Witness ==
    /\ Done
    /\ \E j \in BatchCalls : calls[j].hlen > HistoryWindow
    /\ \E j, h \in BatchCalls :
          /\ calls[h].b = calls[j].b + 1
          /\ calls[j].window # <<>>
          /\ calls[h].hlen <= HistoryWindow
          /\ calls[h].window # calls[j].window

\* the step that persists
Persists == pc = "final" /\ pc' = "done"

\* records of the project with the requirement text of the run
SameText(table, rest) == Len(table) + Len(rest)

\* a record that is not the user's is the most recent one of the project
\* and text
OtherIsNewest == \E j \in 1..Len(others) : others[j].newer \/ db = <<>>

C13_PayloadIsList ==
    [][Persists =>
         \A j \in 1..Len(db') : (j > Len(db) \/ db'[j] # db[j]) => IsList(db'[j])]_vars

\* C14: a call of the parser returns a list, a mapping or the failure
\* marker, and the marker holds the text of the call unchanged.
C14_ParserTotal ==
    pc = "parsed" =>
        /\ result.t \in {"list", "dict", "fail"}
        /\ result.t = "fail" => result.raw = response_text

\* the parser has failed on a text with white space around it
C14_Witness ==
    /\ pc = "parsed"
    /\ result.t = "fail"
    /\ response_text # <<>>
    /\ Strip(response_text) # response_text

\* C15: for a text written in one of the six shapes the parser returns the
\* list of the intended items, in their order.
C15_ParserRobust ==
    pc = "parsed" /\ written \in WrittenShapes => result = ParsedList(intended)

\* C16: what the normalizer returns for a list is a fixed point of the
\* normalizer.
C16_NormalizeIdempotent ==
    pc = "normalized" => normalize_json_structure(normalized) = normalized

\* the normalizer was given a list, dropped an item of it that was no
\* object and changed an item it kept
C16_Witness ==
    /\ pc = "normalized"
    /\ IsList(result)
    /\ normalized.items # <<>>
    /\ Len(normalized.items) < Len(result.items)
    /\ \A j \in 1..Len(normalized.items) : \A h \in 1..Len(result.items) :
           normalized.items[j] # result.items[h]

\* the first call of batch number b
FirstCall(b) == CHOOSE j \in BatchCalls : calls[j].b = b /\ calls[j].a = 1

\* C17: the records a batch normalizes to are numbered from the batch's
\* offset on, in order, whatever ids the generator wrote.
C17_IdsFromOffset ==
    \A b \in 1..Len(batch_parsed) :
        \A j \in 1..Len(batch_parsed[b]) :
            batch_parsed[b][j].idn = calls[FirstCall(b)].from + j - 1

\* C18: no two records of the list a run persisted have the same id.
C18_IdsUnique ==
    Done /\ calls # <<>> /\ IsList(RunRecord) =>
        \A j, h \in 1..Len(RunRecord.items) :
            j # h => RunRecord.items[j].idn # RunRecord.items[h].idn

Conforms(rec) ==
    /\ rec.k = "obj"
    /\ rec.idk = "tc"
    /\ ~rec.f.extra
    /\ rec.f.priority \in {"P0", "P1", "P2"}
    /\ \A v \in {rec.f.description, rec.f.test_module, rec.f.test_input,
                  rec.f.expected_result} : v \in {"plain", "empty"}
    /\ \A v \in {rec.f.steps, rec.f.preconditions} :
           v.form = "list" /\ \A j \in 1..Len(v.parts) : v.parts[j] > 0

\* C19: every record the normalizer returns has the eight fields and no
\* other, a priority of P0, P1 or P2, and steps that are a non-empty
\* sequence of non-empty strings.
C19_SchemaConformance ==
    pc = "normalized" /\ IsList(normalized) =>
        \A j \in 1..Len(normalized.items) :
            /\ Conforms(normalized.items[j])
            /\ normalized.items[j].f.steps.parts # <<>>

\* the whole stream of the endpoint
Streamed == web.lines \o out

DuplicateLines == {j \in 1..Len(Streamed) : Streamed[j].k = "dup"}

\* one duplicate line, the last of the stream, naming the most recent
\* record; the generator was not called and the table is as it was
ShortCircuited ==
    /\ web.stage = "duplicate"
    /\ Cardinality(DuplicateLines) = 1
    /\ Streamed[Len(Streamed)] = DuplicateLine(Len(web.table))
    /\ calls = <<>>
    /\ pc = "start"
    /\ db = web.table

\* C20 (as claimed): a request with neither force nor append set that
\* finds a record of the same project, user and requirement text is
\* answered with one duplicate line naming the most recent such record and
\* nothing else happens.
C20_DuplicateShortCircuit ==
    web.stage \notin {"none", "received", "failed"} /\ ~overwrite /\ ~append
    /\ web.table # <<>>
        => ShortCircuited

\* C20 (amended): the same for a request that comes as requirement text, or
\* as a file that the knowledge base reports as a duplicate.
C20_DuplicateShortCircuitText ==
    web.stage \notin {"none", "received", "failed"} /\ ~overwrite /\ ~append
    /\ web.table # <<>>
    /\ (web.via = "text" \/ web.held)
        => ShortCircuited

\* a request was answered with a duplicate line although the table held an
\* older record as well
C20_Witness ==
    /\ web.stage = "duplicate"
    /\ web.via = "text"
    /\ Len(web.table) = 2
    /\ Len(Streamed) = 2

\* the rows that hold a content in a project
Holding(docs, content, project_id) ==
    {j \in 1..Len(docs) : /\ docs[j].content_hash = calculate_hash(content)
                          /\ docs[j].project_id = project_id}

AddStep == store'.op.name = "add" /\ store'.now = store.now /\ store' # store

\* C21: a call add_document(content, project) made while the project holds a
\* document of this content creates no row and changes none: without force
\* it returns the duplicate status with the id of a document of this content
\* and project, with force it returns such a document itself; the number
\* of documents of this content in the project stays what it was (1 stays 1).
C21_KbDeduplication ==
    [][(AddStep /\ Holding(store.docs, store'.op.content, store'.op.project_id) # {})
       => /\ store'.docs = store.docs
          /\ store'.next_id = store.next_id
          /\ \E j \in Holding(store.docs, store'.op.content, store'.op.project_id) :
                IF store'.op.force
                THEN store'.ret = DocReturn(store.docs[j])
                ELSE store'.ret = [t |-> "duplicate", existing_doc_id |-> store.docs[j].id]
          /\ Cardinality(Holding(store'.docs, store'.op.content, store'.op.project_id))
                = Cardinality(Holding(store.docs, store'.op.content, store'.op.project_id))]_vars

\* a second document was created, and after it a call with force returned
\* the first one, the only document of its content in its project
C21_Witness ==
    /\ Len(store.docs) = 2
    /\ store.docs[2].id = 2
    /\ store.op.name = "add"
    /\ store.op.force
    /\ store.ret.t = "doc"
    /\ store.ret.id = 1
    /\ Holding(store.docs, store.op.content, store.op.project_id) = {1}

\* the rows of a project and type, in the order of their creation
Group(docs, project_id, doc_type) ==
    SelectSeq(docs, LAMBDA d : d.project_id = project_id /\ d.doc_type = doc_type)

\* C22: after every call of the knowledge base, the documents of a project
\* and type carry the project_specific_id values 1..n, the k-th created of
\* them the value k.
C22_ConsecutiveIds ==
    \A project_id \in Projects, doc_type \in DocTypes :
        \A k \in 1..Len(Group(store.docs, project_id, doc_type)) :
            Group(store.docs, project_id, doc_type)[k].project_specific_id = k

\* a call of the generator was made with the texts of prep
Prompted == calls # <<>> /\ prep.stage = "prepared"

\* the compress capability was asked for the knowledge / the requirement
KbCompressed ==
    \/ prep.compress /\ prep.all_context # ""
    \/ ~prep.compress /\ prep.found # "" /\ prep.long_kb

ReqCompressed == prep.compress \/ prep.long_req

\* C23: no prompt of a run holds, as the requirement or as the knowledge
\* context, a text of the compress capability that begins with "Error:",
\* "Exception" or the quota marker; where compress answered with such a
\* text the requirement is the original one and the knowledge context is
\* what retrieval found.
C23_CompressionVerified ==
    Prompted =>
        /\ prep.requirement \notin Sentinels
        /\ prep.kb_context \notin Sentinels
        /\ (ReqCompressed /\ prep.req_answer \in Sentinels) => prep.requirement = "original"
        /\ (KbCompressed /\ prep.kb_answer \in Sentinels) => prep.kb_context = prep.found

\* a supplement call is made and answered
SupplementStep == pc = "supp" /\ Len(calls') = Len(calls) + 1

\* the records a supplement step added to the result
Supplemented ==
    SubSeq(parsed_result'.items, Len(parsed_result.items) + 1, Len(parsed_result'.items))

\* C24: the prompt of a supplement call carries, in its history, the
\* records the run has obtained so far, and the records the call yields
\* are appended to the result and to the history.
C24_SupplementFeedsHistory ==
    [][SupplementStep =>
          /\ \A j \in 1..Len(parsed_result.items) :
                history_entry(parsed_result.items[j]) \in Range(calls'[Len(calls')].window)
          /\ IsPrefix(parsed_result.items, parsed_result'.items)
          /\ history_summaries' = history_summaries \o history_of(Supplemented)]_vars

CallsOf(phase, b) == {j \in 1..Len(calls) : calls[j].ph = phase /\ calls[j].b = b}

SupplementCalls == {j \in 1..Len(calls) : calls[j].ph = "supp"}

CallsBounded ==
    /\ \A b \in 1..Len(quotas) : Cardinality(CallsOf("batch", b)) <= MaxAttempts
    /\ Cardinality(SupplementCalls) <= MaxAttempts
    /\ Len(calls) <= MaxAttempts * total_batches + MaxAttempts

\* C25: a batch issues at most 3 generation calls, whatever the tries
\* yield, the supplement phase at most 3 more, a run of total_batches
\* batches at most 3 * total_batches + 3; and a run whose streams all end
\* reaches its end.
C25_BoundedTries == []CallsBounded /\ <>Done

\* a run of one batch that has ended after three tries of the batch and
\* three supplement calls
C25_Witness ==
    /\ Done
    /\ total_batches = 1
    /\ Cardinality(CallsOf("batch", 1)) = MaxAttempts
    /\ Cardinality(SupplementCalls) = MaxAttempts

\* the target less the records of a result and the records that were there
\* before the run
Shortfall(parsed) ==
    expected_count - ((IF IsList(parsed) THEN Len(parsed.items) ELSE 0) + Pre)

SupplementErrorSeen ==
    \E j \in SupplementCalls : calls[j].shape \in ProviderShapes

\* C26: when the batches are over without a provider error and the records
\* parsed from them (none, if nothing could be parsed) and the pre-existing
\* ones are fewer than the target, the run turns to its supplement calls;
\* a supplement call is made only while the shortfall is positive, fewer
\* than 3 were made and none hit a provider error, and asks for exactly
\* the shortfall.
C26_SupplementTrigger ==
    [][/\ (pc = "post" /\ ~ProviderErrorSeen /\ Shortfall(parsed_result') > 0)
              => pc' = "supp"
       /\ SupplementStep
              => /\ Shortfall(parsed_result) > 0
                 /\ calls'[Len(calls')].need = Shortfall(parsed_result)
                 /\ Cardinality(SupplementCalls) < MaxAttempts
                 /\ ~SupplementErrorSeen]_vars

\* the records still to be planned for before batch b of an appending run
RemainingNeed(b) == requested - Pre - Sum(SubSeq(quotas, 1, b - 1))

\* C27: an appending run with E records in its list and a target T > E
\* works with the batch size 25 if T - E > 25 and T - E otherwise; every
\* batch asks for min(batch size, T - E less what the earlier batches asked
\* for), and the batches together ask for exactly T - E.
C27_AppendPlan ==
    (pc # "start" /\ append /\ IsList(existing_cases) /\ requested > Pre) =>
        /\ batch_size = IF requested - Pre > BatchCap THEN BatchCap ELSE requested - Pre
        /\ \A b \in 1..Len(quotas) : quotas[b] = Min2(batch_size, RemainingNeed(b))
        /\ Done => Sum(quotas) = requested - Pre

\* the records of a parse result, none if it is no list
RecordsOf(parsed) == IF IsList(parsed) THEN Tags(parsed.items) ELSE {}

\* C28: every record that the parse of a batch's own text counted is in
\* the result of parsing the text of all batches together (line 795).
C28_BatchAndFinalParseAgree ==
    [][pc = "post" =>
          \A b \in 1..Len(batch_parsed) : Tags(batch_parsed[b]) \subseteq RecordsOf(parsed_result')]_vars

\* both runs have finished, and each had read the list before the other
\* wrote it
Overlapped ==
    /\ pc = "done"
    /\ rival.pc = "done"
    /\ existing_entry # 0
    /\ rival.entry = existing_entry
    /\ IsList(existing_cases)
    /\ rival.cases = existing_cases

\* C29: two appending runs on the same project and requirement text that
\* overlap in time lose nothing: once both have finished, the persisted list
\* holds the records that were there before, the records this run parsed,
\* and the records the other run parsed.
C29_ConcurrentAppends ==
    Overlapped =>
        /\ IsList(db[existing_entry])
        /\ IsList(parsed_result) =>
              (Tags(existing_cases.items) \cup Tags(parsed_result.items) \cup Tags(rival.new))
                  \subseteq Tags(db[existing_entry].items)

\* a run with both flags that found a record at its start
BothFlags == overwrite /\ append /\ existing_entry # 0

\* the records the run found
Found == IF IsList(existing_cases) THEN existing_cases.items ELSE <<>>

\* C30: a run with overwrite and append both set that found a record has
\* planned, kept history and truncates as an appending run does (ids start
\* after the records found, the batches cover the target less the records
\* found, the history begins with the records found, the new records are cut
\* to the target less the records found), and its last step replaces the
\* record's payload by the final result alone: none of the records found is
\* in it.
C30_BothFlagsOverwrite ==
    [][(pc = "final" /\ BothFlags) =>
          /\ start_id = Len(Found) + 1
          /\ calls # <<>> => calls[1].from = start_id
          /\ total_batches * batch_size >= expected_count - Len(Found)
          /\ (total_batches - 1) * batch_size < expected_count - Len(Found)
          /\ IsPrefix(history_of(Found), history_summaries)
          /\ IsList(parsed_result) =>
                /\ IsList(parsed_result')
                /\ IsPrefix(parsed_result'.items, parsed_result.items)
                /\ Len(parsed_result.items) + Len(Found) > expected_count =>
                      Len(parsed_result'.items) = expected_count - Len(Found)
                /\ Len(parsed_result.items) + Len(Found) <= expected_count =>
                      parsed_result' = parsed_result
                /\ Tags(parsed_result'.items) \cap Tags(Found) = {}
          /\ db' = [db EXCEPT ![existing_entry] = parsed_result']]_vars

\* the run has replaced a list of records by a list of new records, after
\* cutting it
C30_Witness ==
    /\ pc = "done"
    /\ BothFlags
    /\ Found # <<>>
    /\ IsList(parsed_result)
    /\ parsed_result.items # <<>>
    /\ db[existing_entry] = parsed_result
    /\ \E j \in 1..Len(out) : out[j] = CutStatus

====
